---- MODULE Spec2Model ----
(***************************************************************************)
(* A model of udp-socket's portable path: UdpSocket::poll_send, poll_recv, *)
(* send and recv (src/src/socket.rs) over the fallback platform module     *)
(* (fallback::send, fallback::recv).  The kernel and the reactor are the   *)
(* environment: every readiness poll and every send_to / recv_from draws   *)
(* its outcome from the outcomes the operating system can produce.         *)
(***************************************************************************)
EXTENDS Integers, Sequences, FiniteSets, TLC

\* ------------------------------------------------------------------ bounds
MaxTransmits == 3   \* longest transmits slice handed to UdpSocket::send
MaxSlots     == 2   \* longest buffers / meta slice handed to recv
MaxInbox     == 2   \* datagrams that reach the socket's receive queue
MaxPayload   == 2   \* longest datagram payload and largest buffer capacity
MaxShared    == 2   \* longest transmits slice of each of two concurrent sends

\* ------------------------------------------------------------------ values
Tasks        == {1, 2}
HardErrors   == {"ConnectionReset"}
KernelErrors == {"WouldBlock"} \cup HardErrors       \* io::Error of a syscall
PollErrors   == {"BadDescriptor"}                    \* io::Error of the reactor
Readiness    == {"Ready", "Pending"} \cup PollErrors \* Async::poll_writable/_readable
Peers        == {"PeerA", "PeerB"}

\* Result<usize> and Poll<Result<usize>> as one record shape.
Ok(k)   == [kind |-> "Ok", n |-> k, err |-> "none"]
Err(e)  == [kind |-> "Err", n |-> 0, err |-> e]
Pending == [kind |-> "Pending", n |-> 0, err |-> "none"]
Panic   == [kind |-> "Panic", n |-> 0, err |-> "none"]
NoRet   == [kind |-> "None", n |-> 0, err |-> "none"]

Min(a, b) == IF a < b THEN a ELSE b

VARIABLES
    pc,        \* pc[t]: position of task t's UdpSocket::send future
    len,       \* len[t]: transmits.len() of task t's call
    i,         \* i[t]: the local `i` of UdpSocket::send
    ret,       \* ret[t]: what UdpSocket::send returned to task t
    sendLast,  \* sendLast[t]: task t's most recent poll_send call
    wire,      \* every send_to issued on the socket, in order, with its result
    shape,     \* shape[t][k]: contents.len() and segment_size of task t's transmit k
    rpc,       \* position of the UdpSocket::recv future
    buffers,   \* the caller's buffers slice
    meta,      \* the caller's meta slice
    inbox,     \* the socket's receive queue
    taken,     \* how many datagrams recv_from has taken off the receive queue
    recvLast,  \* the most recent poll_recv call
    sock,      \* the UdpSocket: its bound address family, its `ty`, the kernel's TTL
    api,       \* what capabilities, socket_type, ttl, set_ttl, local_addr last returned
    ecnCall    \* the most recent EcnCodepoint::from_bits call

sendVars == <<pc, len, i, ret, sendLast, wire, shape>>
recvVars == <<rpc, buffers, meta, inbox, taken, recvLast>>
sockVars == <<sock, api, ecnCall>>
vars     == <<pc, len, i, ret, sendLast, wire, shape, rpc, buffers, meta, inbox, taken,
             recvLast, sock, api, ecnCall>>

\* ------------------------------------------------------- fallback::send
\* Mutant: the Ok arm forgets to count the datagram.
SentNotCounted(sent) == sent

\* `sent += 1` of the Ok arm.
SentAfterOk(sent) == sent + 1

\* Mutant: the second arm has no guard, every failure is swallowed.
SwallowAlways(sent) == TRUE

\* Mutant: the guard of the second arm inverted.
SwallowInverted(sent) == sent = 0

\* The guard of the second arm, `Err(_) if sent != 0`.
SwallowError(sent) == sent # 0

\* Mutant: the last arm wraps the failure in a generic error.
GenericError(e) == "Other"

\* The last arm, `Err(e) => return Err(e)`: the error it hands back.
SurfacedError(e) == e

\* The loop of fallback::send from entry j of the slice on.  kernel[j] is what
\* socket.send_to answers for entry j if it is issued; attempts is the list of
\* send_to calls issued so far, each with its result.
RECURSIVE SendLoop(_, _, _, _, _)
SendLoop(transmits, kernel, j, sent, attempts) ==
    IF j > Len(transmits)
    THEN [ret |-> Ok(sent), attempts |-> attempts]
    ELSE LET r   == kernel[j]
             att == Append(attempts, [transmit |-> transmits[j], result |-> r])
         IN  IF r = "Ok"
             THEN SendLoop(transmits, kernel, j + 1, SentAfterOk(sent), att)
             ELSE IF SwallowError(sent)
                  THEN [ret |-> Ok(sent), attempts |-> att]
                  ELSE [ret |-> Err(SurfacedError(r)), attempts |-> att]

FallbackSend(transmits, kernel) == SendLoop(transmits, kernel, 1, 0, <<>>)

\* ------------------------------------------------- UdpSocket::poll_send
\* Mutant: the Poll::Pending arm does not return, the syscall is issued anyway.
PollSendEager(ready, transmits, kernel) ==
    IF ready \in PollErrors THEN [ret |-> Err(ready), attempts |-> <<>>]
    ELSE FallbackSend(transmits, kernel)

PollSend(ready, transmits, kernel) ==
    IF ready = "Pending" THEN [ret |-> Pending, attempts |-> <<>>]
    ELSE IF ready \in PollErrors THEN [ret |-> Err(ready), attempts |-> <<>>]
    ELSE FallbackSend(transmits, kernel)

\* ------------------------------------------------------ UdpSocket::send
\* Option<usize> of Transmit::segment_size.
NoSegments  == [some |-> FALSE, val |-> 0]
Segments(n) == [some |-> TRUE, val |-> n]

\* The contents.len() and segment_size of a Transmit: a single one-byte
\* datagram, and a contents of MaxPayload one-byte segments.
PlainShapes == {[bytes |-> 1, segment_size |-> NoSegments]}
Shapes      == PlainShapes \cup {[bytes |-> MaxPayload, segment_size |-> Segments(1)]}

\* BATCH_SIZE (src/src/lib.rs) where target_os is not linux, as on every target
\* the fallback module is compiled for.
BATCH_SIZE == 1

\* fallback::max_gso_segments: `Ok(1)`.
MaxGsoSegments == 1

\* The payload lengths of the datagrams one send_to puts on the wire for a
\* transmit: `socket.send_to(&transmit.contents, ...)` sends the whole contents
\* as one datagram.
SendToDatagrams(tr) == <<tr.bytes>>

\* The caller's transmits: entry k is named by its 1-based place k.
Transmits(t) == [k \in 1..len[t] |-> k]

\* &transmits[i..]
SliceFrom(transmits, from) == SubSeq(transmits, from + 1, Len(transmits))

\* Mutant: the offset is advanced one past the count poll_send reported.
SkipAhead(off, k) == off + k + 1

\* Mutant: the offset is not advanced by the count poll_send reported.
StaleOffset(off, k) == off

\* `i += n`
NextOffset(off, k) == off + k

\* The send_to calls of one platform send call as the socket sees them; sh is
\* the caller's transmits.
StampOf(t, sh, attempts) ==
    [k \in 1..Len(attempts) |->
        [task |-> t, transmit |-> attempts[k].transmit, result |-> attempts[k].result,
         datagrams |-> SendToDatagrams(sh[attempts[k].transmit])]]

Stamp(t, attempts) == StampOf(t, shape[t], attempts)

NoSend == [called |-> FALSE, from |-> 0, size |-> 0, ready |-> "Pending",
           ret |-> NoRet, attempts |-> <<>>]

\* A task calls socket.send(&transmits) and gets the future.
SendCall(t, n, sh) ==
    /\ pc[t] = "idle"
    /\ pc' = [pc EXCEPT ![t] = "running"]
    /\ len' = [len EXCEPT ![t] = n]
    /\ shape' = [shape EXCEPT ![t] = sh]
    /\ i' = [i EXCEPT ![t] = 0]
    /\ UNCHANGED <<ret, sendLast, wire>>
    /\ UNCHANGED recvVars
    /\ UNCHANGED sockVars

\* `while i < transmits.len()` is false: `Ok(i)`.
SendReturn(t) ==
    /\ pc[t] \in {"running", "suspended"}
    /\ ~(i[t] < len[t])
    /\ pc' = [pc EXCEPT ![t] = "done"]
    /\ ret' = [ret EXCEPT ![t] = Ok(i[t])]
    /\ UNCHANGED <<len, i, sendLast, wire, shape>>
    /\ UNCHANGED recvVars
    /\ UNCHANGED sockVars

\* One iteration of the loop: poll_send on &transmits[i..], then `.await?`.
\* The future is suspended exactly when poll_send answered Pending; after Ok(n)
\* the loop goes on within the same poll of the future (pc "running").
SendStep(t, ready, kernel) ==
    /\ pc[t] \in {"running", "suspended"}
    /\ i[t] < len[t]
    /\ LET slice == SliceFrom(Transmits(t), i[t])
           out   == PollSend(ready, slice, kernel)
       IN  /\ sendLast' = [sendLast EXCEPT ![t] =
                  [called |-> TRUE, from |-> i[t], size |-> Len(slice),
                   ready |-> ready, ret |-> out.ret, attempts |-> out.attempts]]
           /\ wire' = wire \o Stamp(t, out.attempts)
           /\ CASE out.ret.kind = "Pending" ->
                     /\ pc' = [pc EXCEPT ![t] = "suspended"]
                     /\ UNCHANGED <<i, ret>>
                [] out.ret.kind = "Ok" ->
                     /\ pc' = [pc EXCEPT ![t] = "running"]
                     /\ i' = [i EXCEPT ![t] = NextOffset(i[t], out.ret.n)]
                     /\ UNCHANGED ret
                [] OTHER ->
                     /\ pc' = [pc EXCEPT ![t] = "done"]
                     /\ ret' = [ret EXCEPT ![t] = out.ret]
                     /\ UNCHANGED i
    /\ UNCHANGED <<len, shape>>
    /\ UNCHANGED recvVars
    /\ UNCHANGED sockVars

\* A task calls socket.poll_send(cx, &transmits) itself, once, on a slice of n
\* transmits.
PollSendDirect(t, n, sh, ready, kernel) ==
    /\ pc[t] = "idle"
    /\ LET slice == [k \in 1..n |-> k]
           out   == PollSend(ready, slice, kernel)
       IN  /\ sendLast' = [sendLast EXCEPT ![t] =
                  [called |-> TRUE, from |-> 0, size |-> n,
                   ready |-> ready, ret |-> out.ret, attempts |-> out.attempts]]
           /\ wire' = wire \o StampOf(t, sh, out.attempts)
    /\ pc' = [pc EXCEPT ![t] = "polled"]
    /\ len' = [len EXCEPT ![t] = n]
    /\ shape' = [shape EXCEPT ![t] = sh]
    /\ UNCHANGED <<i, ret>>
    /\ UNCHANGED recvVars
    /\ UNCHANGED sockVars

\* The task drops the future while it is suspended.
SendCancel(t) ==
    /\ pc[t] = "suspended"
    /\ pc' = [pc EXCEPT ![t] = "cancelled"]
    /\ UNCHANGED <<len, i, ret, sendLast, wire, shape>>
    /\ UNCHANGED recvVars
    /\ UNCHANGED sockVars

SendKernels(t) == [1..(len[t] - i[t]) -> {"Ok"} \cup KernelErrors]

\* The send calls of task t over up to maxLen transmits of the given shapes.
SendTaskOf(t, maxLen, shapes) ==
    \/ \E n \in 0..maxLen : \E sh \in [1..n -> shapes] : SendCall(t, n, sh)
    \/ \E ready \in Readiness : \E kernel \in SendKernels(t) : SendStep(t, ready, kernel)
    \/ SendReturn(t)
    \/ SendCancel(t)
    \/ \E n \in 0..maxLen : \E sh \in [1..n -> shapes] : \E ready \in Readiness :
          \E kernel \in [1..n -> {"Ok"} \cup KernelErrors] :
             PollSendDirect(t, n, sh, ready, kernel)

SendTask(t) == SendTaskOf(t, MaxTransmits, Shapes)

\* ------------------------------------------------------- fallback::recv
\* RecvMeta::default() (src/src/proto.rs) and an entry a caller may hand in that
\* still holds what an earlier receive with control data left in it.
DefaultMeta == [source |-> "Unspecified", len |-> 0, ecn |-> "None", dst_ip |-> "None"]
StaleMeta   == [source |-> "PeerB", len |-> 1, ecn |-> "CE", dst_ip |-> "LocalIp"]

Datagrams == [source : Peers, len : 0..MaxPayload]

\* socket.recv_from(&mut buf) on the non-blocking socket: an empty queue answers
\* WouldBlock; otherwise the kernel answers kres, "Ok" taking the head datagram
\* and copying as much of it as buf holds.
RecvFrom(buf, queue, kres) ==
    IF queue = <<>>
    THEN [ret |-> Err("WouldBlock"), source |-> "Unspecified", buf |-> buf, queue |-> queue]
    ELSE IF kres # "Ok"
    THEN [ret |-> Err(kres), source |-> "Unspecified", buf |-> buf, queue |-> queue]
    ELSE LET d == Head(queue)
             k == Min(d.len, buf.cap)
         IN  [ret |-> Ok(k), source |-> d.source,
              buf |-> [buf EXCEPT !.filled = k], queue |-> Tail(queue)]

\* Mutant: only source and len are assigned, the control fields are kept.
KeepControlFields(old, source, k) == [old EXCEPT !.source = source, !.len = k]

\* The RecvMeta literal assigned to meta[0]; old is the entry it overwrites.
FilledMeta(old, source, k) ==
    [source |-> source, len |-> k, ecn |-> "None", dst_ip |-> "None"]

\* The slot of meta the literal is assigned to (meta[0], 1-based here).
MetaSlot == 1

\* Mutant: the byte count of recv_from is returned instead of the slot count.
ReturnBytes(k) == Ok(k)

\* The `Ok(1)` that ends fallback::recv; k is the byte count of recv_from.
RecvCount(k) == Ok(1)

FallbackRecv(bufs, metas, queue, kres) ==
    IF Len(bufs) = 0
    THEN [ret |-> Panic, buffers |-> bufs, meta |-> metas, inbox |-> queue]
    ELSE LET r == RecvFrom(bufs[1], queue, kres)
         IN  IF r.ret.kind = "Err"
             THEN [ret |-> r.ret, buffers |-> bufs, meta |-> metas, inbox |-> queue]
             ELSE LET bufs2 == [bufs EXCEPT ![1] = r.buf]
                  IN  IF Len(metas) < MetaSlot
                      THEN [ret |-> Panic, buffers |-> bufs2, meta |-> metas,
                            inbox |-> r.queue]
                      ELSE [ret |-> RecvCount(r.ret.n), buffers |-> bufs2,
                            meta |-> [metas EXCEPT ![MetaSlot] =
                                         FilledMeta(metas[MetaSlot], r.source, r.ret.n)],
                            inbox |-> r.queue]

\* ------------------------------------------------- UdpSocket::poll_recv
PollRecv(ready, bufs, metas, queue, kres) ==
    IF ready = "Pending"
    THEN [ret |-> Pending, buffers |-> bufs, meta |-> metas, inbox |-> queue]
    ELSE IF ready \in PollErrors
    THEN [ret |-> Err(ready), buffers |-> bufs, meta |-> metas, inbox |-> queue]
    ELSE FallbackRecv(bufs, metas, queue, kres)

NoRecv == [called |-> FALSE, ready |-> "Pending", ret |-> NoRet,
           consumed |-> <<>>, metaBefore |-> <<>>]

\* ------------------------------------------------------ UdpSocket::recv
\* The caller allocates the buffers and meta slices it will receive into.
ProvideBuffers(nb, nm, cap, m) ==
    /\ rpc = "unbound"
    /\ buffers' = [k \in 1..nb |-> [cap |-> cap, filled |-> 0]]
    /\ meta' = [k \in 1..nm |-> m]
    /\ rpc' = "idle"
    /\ recvLast' = NoRecv
    /\ UNCHANGED <<inbox, taken>>
    /\ UNCHANGED sendVars
    /\ UNCHANGED sockVars

\* A peer's datagram reaches the socket's receive queue.
Arrive(d) ==
    /\ Len(inbox) + taken < MaxInbox
    /\ inbox' = Append(inbox, d)
    /\ UNCHANGED <<rpc, buffers, meta, taken, recvLast>>
    /\ UNCHANGED sendVars
    /\ UNCHANGED sockVars

\* One poll of the recv future: poll_fn(|cx| self.poll_recv(cx, buffers, meta)).
RecvPoll(ready, kres) ==
    /\ rpc \in {"idle", "suspended", "returned"}
    /\ LET out == PollRecv(ready, buffers, meta, inbox, kres)
       IN  /\ buffers' = out.buffers
           /\ meta' = out.meta
           /\ inbox' = out.inbox
           /\ taken' = taken + (Len(inbox) - Len(out.inbox))
           /\ recvLast' = [called |-> TRUE, ready |-> ready, ret |-> out.ret,
                           consumed |-> SubSeq(inbox, 1, Len(inbox) - Len(out.inbox)),
                           metaBefore |-> meta]
           /\ rpc' = CASE out.ret.kind = "Pending" -> "suspended"
                       [] out.ret.kind = "Panic" -> "panicked"
                       [] OTHER -> "returned"
    /\ UNCHANGED sendVars
    /\ UNCHANGED sockVars

\* What UdpSocket::recv returned, once its future is ready.
RecvRet == IF rpc = "returned" THEN recvLast.ret ELSE NoRet

\* ------------------------------------------------------- UdpSocket::bind
\* The largest u8, the type of a TTL and of the argument of from_bits.
U8Max == 255

BindFamilies == {"V4", "V6"}

\* fallback::init: the SocketType of the bound socket.
FallbackInit(family) == IF family = "V4" THEN "Ipv4" ELSE "Ipv6Only"

\* The TTL the operating system gives a new socket.
DefaultTtl == 64

\* UdpSocket::bind(addr): the socket bound to an address of the given family.
Bind(family) == [family |-> family, ty |-> FallbackInit(family), ttl |-> DefaultTtl]

\* The most recent call of capabilities, socket_type, ttl, set_ttl or
\* local_addr: which one, its Result, and the value of a non-numeric answer.
NoApi == [op |-> "none", ret |-> NoRet, val |-> "none"]
NoEcn == [called |-> FALSE, x |-> 0, result |-> "None"]

\* Mutant: a platform without segmentation reports no segments at all.
ZeroGsoSegments == Ok(0)

\* fallback::max_gso_segments() as capabilities() calls it.
FallbackMaxGsoSegments == Ok(MaxGsoSegments)

\* UdpSocket::capabilities(): UdpCapabilities { max_gso_segments } or the error
\* of platform::max_gso_segments()?.
Capabilities ==
    /\ api' = [op |-> "capabilities", ret |-> FallbackMaxGsoSegments, val |-> "none"]
    /\ UNCHANGED <<sock, ecnCall>>
    /\ UNCHANGED sendVars
    /\ UNCHANGED recvVars

\* Mutant: socket_type() classifies the address anew and calls every socket
\* that is not IPv4 dual-stack.
ReclassifiedType(s) == IF s.family = "V4" THEN "Ipv4" ELSE "Ipv6"

\* UdpSocket::socket_type(): `self.ty`.
SocketTypeOf(s) == s.ty

SocketType ==
    /\ api' = [op |-> "socket_type", ret |-> Ok(0), val |-> SocketTypeOf(sock)]
    /\ UNCHANGED <<sock, ecnCall>>
    /\ UNCHANGED sendVars
    /\ UNCHANGED recvVars

\* UdpSocket::local_addr(): the bound address, or the error of the syscall.
LocalAddr(kres) ==
    /\ api' = IF kres = "Ok"
              THEN [op |-> "local_addr", ret |-> Ok(0), val |-> sock.family]
              ELSE [op |-> "local_addr", ret |-> Err(kres), val |-> "none"]
    /\ UNCHANGED <<sock, ecnCall>>
    /\ UNCHANGED sendVars
    /\ UNCHANGED recvVars

\* UdpSocket::ttl(): `Ok(ttl as u8)` of the socket's u32 TTL.
Ttl(kres) ==
    /\ api' = IF kres = "Ok"
              THEN [op |-> "ttl", ret |-> Ok(sock.ttl % (U8Max + 1)), val |-> "none"]
              ELSE [op |-> "ttl", ret |-> Err(kres), val |-> "none"]
    /\ UNCHANGED <<sock, ecnCall>>
    /\ UNCHANGED sendVars
    /\ UNCHANGED recvVars

\* UdpSocket::set_ttl(ttl): sets the socket's TTL to `ttl as u32`.
SetTtl(ttl, kres) ==
    /\ sock' = IF kres = "Ok" THEN [sock EXCEPT !.ttl = ttl] ELSE sock
    /\ api' = [op |-> "set_ttl", ret |-> (IF kres = "Ok" THEN Ok(0) ELSE Err(kres)),
               val |-> "none"]
    /\ UNCHANGED ecnCall
    /\ UNCHANGED sendVars
    /\ UNCHANGED recvVars

\* ------------------------------------------- EcnCodepoint::from_bits
\* a & b on unsigned integers, bit by bit.
RECURSIVE BitAnd(_, _)
BitAnd(a, b) ==
    IF a = 0 \/ b = 0 THEN 0
    ELSE (IF a % 2 = 1 /\ b % 2 = 1 THEN 1 ELSE 0) + 2 * BitAnd(a \div 2, b \div 2)

\* Mutant: the match is on x itself, the mask is forgotten.
FromBitsUnmasked(x) ==
    CASE x = 2 -> "ECT0"
      [] x = 1 -> "ECT1"
      [] x = 3 -> "CE"
      [] OTHER -> "None"

\* `match x & 0b11 { 0b10 => ECT0, 0b01 => ECT1, 0b11 => CE, _ => return None }`
FromBits(x) ==
    LET m == BitAnd(x, 3)
    IN  CASE m = 2 -> "ECT0"
          [] m = 1 -> "ECT1"
          [] m = 3 -> "CE"
          [] OTHER -> "None"

\* A call of EcnCodepoint::from_bits(x).
FromBitsCall(x) ==
    /\ ecnCall' = [called |-> TRUE, x |-> x, result |-> FromBits(x)]
    /\ UNCHANGED <<sock, api>>
    /\ UNCHANGED sendVars
    /\ UNCHANGED recvVars

Init ==
    /\ pc = [t \in Tasks |-> "idle"]
    /\ len = [t \in Tasks |-> 0]
    /\ i = [t \in Tasks |-> 0]
    /\ ret = [t \in Tasks |-> NoRet]
    /\ sendLast = [t \in Tasks |-> NoSend]
    /\ wire = <<>>
    /\ shape = [t \in Tasks |-> <<>>]
    /\ \E family \in BindFamilies : sock = Bind(family)
    /\ api = NoApi
    /\ ecnCall = NoEcn
    /\ rpc = "unbound"
    /\ buffers = <<>>
    /\ meta = <<>>
    /\ inbox = <<>>
    /\ taken = 0
    /\ recvLast = NoRecv

NextSend == SendTask(1)

SpecSend == Init /\ [][NextSend]_vars

NextRecv ==
    \/ \E nb \in 0..MaxSlots : \E nm \in 0..MaxSlots : \E cap \in {1, MaxPayload} :
          \E m \in {DefaultMeta, StaleMeta} : ProvideBuffers(nb, nm, cap, m)
    \/ \E d \in Datagrams : Arrive(d)
    \/ \E ready \in Readiness : \E kres \in {"Ok"} \cup HardErrors : RecvPoll(ready, kres)

SpecRecv == Init /\ [][NextRecv]_vars

\* Two tasks send on the same socket; their loop iterations interleave freely.
NextShared == \E t \in Tasks : SendTaskOf(t, MaxShared, PlainShapes)

SpecShared == Init /\ [][NextShared]_vars

\* The calls on one socket: the accessors, capabilities, a send of at most two
\* one-byte transmits, and receives of queued one-byte datagrams into slices
\* of MaxSlots slots.
NextSock ==
    \/ Capabilities
    \/ SocketType
    \/ \E kres \in {"Ok"} \cup PollErrors : LocalAddr(kres)
    \/ \E kres \in {"Ok"} \cup PollErrors : Ttl(kres)
    \/ \E ttl \in {U8Max} : \E kres \in {"Ok"} \cup PollErrors : SetTtl(ttl, kres)
    \/ SendTaskOf(1, 2, PlainShapes)
    \/ \E m \in {DefaultMeta, StaleMeta} : ProvideBuffers(MaxSlots, MaxSlots, 1, m)
    \/ Arrive([source |-> "PeerA", len |-> 1])
    \/ \E ready \in Readiness : \E kres \in {"Ok"} \cup HardErrors : RecvPoll(ready, kres)

SpecSock == Init /\ [][NextSock]_vars

NextEcn == \E x \in 0..U8Max : FromBitsCall(x)

SpecEcn == Init /\ [][NextEcn]_vars

\* The send half and the receive half share no state: a property of one half is
\* checked under that half's specification, Spec being their product.
Next == NextSend \/ NextRecv \/ NextSock \/ NextEcn \/ NextShared

Spec == Init /\ [][Next]_vars
\* ------------------------------------------------------------ properties
\* The send_to calls task t has issued, in order, and those the kernel accepted.
Mine(t)     == SelectSeq(wire, LAMBDA e : e.task = t)
Accepted(t) == SelectSeq(wire, LAMBDA e : e.task = t /\ e.result = "Ok")

\* The completions UdpSocket::send has reported to its caller: its return value.
Reported(t) == IF ret[t].kind = "Ok" THEN ret[t].n ELSE 0

OkCount(attempts) == Len(SelectSeq(attempts, LAMBDA a : a.result = "Ok"))

\* C1: in one platform send call, when the kernel accepts the first k >= 1
\* transmits and fails the next one, the call returns Ok(k), the failure is not
\* returned, and the failed send_to is the last one the call issues.
C1_PartialSuccessSwallowsError ==
    \A t \in Tasks :
        LET c == sendLast[t] IN
        \A k \in 1..Len(c.attempts) :
            ( /\ \A j \in 1..k : c.attempts[j].result = "Ok"
              /\ k < Len(c.attempts)
              /\ c.attempts[k + 1].result # "Ok" )
            => /\ c.ret = Ok(k)
               /\ Len(c.attempts) = k + 1

\* C1 witness: a call over three transmits accepted one, failed the second,
\* returned Ok(1) and left the third unattempted.
C1_Witness ==
    \E t \in Tasks :
        /\ sendLast[t].called
        /\ sendLast[t].size = 3
        /\ Len(sendLast[t].attempts) = 2
        /\ sendLast[t].attempts[1].result = "Ok"
        /\ sendLast[t].attempts[2].result \in KernelErrors
        /\ sendLast[t].ret = Ok(1)

\* C2: in one platform send call over a non-empty slice, when the first send_to
\* fails the call returns exactly that error and issues no further send_to.
C2_FirstFailureReturnedVerbatim ==
    \A t \in Tasks :
        LET c == sendLast[t] IN
        ( /\ c.called
          /\ Len(c.attempts) >= 1
          /\ c.attempts[1].result # "Ok" )
        => /\ c.ret = Err(c.attempts[1].result)
           /\ c.attempts[1].transmit = c.from + 1
           /\ Len(c.attempts) = 1

\* C2 witness: the first of several transmits failed with a hard error, which
\* is what the call returned.
C2_Witness ==
    \E t \in Tasks :
        /\ sendLast[t].called
        /\ sendLast[t].size >= 2
        /\ Len(sendLast[t].attempts) = 1
        /\ sendLast[t].attempts[1].result = "ConnectionReset"
        /\ sendLast[t].ret = Err("ConnectionReset")

\* C3 (as claimed): a send whose only kernel failures are would-block, and whose
\* readiness polls never fail, does not end before every transmit was accepted
\* exactly once, in order, and then reports all of them.
C3_SendDeliversAllUnlessHardError ==
    \A t \in Tasks :
        ( /\ pc[t] = "done"
          /\ \A k \in 1..Len(wire) :
                wire[k].task = t => wire[k].result \in {"Ok", "WouldBlock"}
          /\ ret[t].err \notin PollErrors )
        => /\ ret[t] = Ok(len[t])
           /\ Len(Accepted(t)) = len[t]
           /\ \A k \in 1..len[t] : Accepted(t)[k].transmit = k

\* C4: Ok(k) of one poll_send call counts exactly the datagrams the kernel
\* accepted in that call, and they are the first k transmits of the slice.
C4_CountIsAcceptedPrefix ==
    \A t \in Tasks :
        LET c == sendLast[t] IN
        c.ret.kind = "Ok"
        => /\ c.ret.n <= c.size
           /\ c.ret.n = OkCount(c.attempts)
           /\ Len(c.attempts) >= c.ret.n
           /\ \A j \in 1..Len(c.attempts) :
                 /\ c.attempts[j].transmit = c.from + j
                 /\ (c.attempts[j].result = "Ok") <=> (j <= c.ret.n)

\* C4 witness: a redriven call over the last two transmits accepted both and
\* returned Ok(2).
C4_Witness ==
    \E t \in Tasks :
        /\ sendLast[t].called
        /\ sendLast[t].from = 1
        /\ sendLast[t].size = 2
        /\ sendLast[t].ret = Ok(2)
        /\ OkCount(sendLast[t].attempts) = 2

\* C5 (as claimed): when poll_send or UdpSocket::send returns an error, the
\* kernel has accepted no datagram of that call beyond what the call reported.
C5_ErrorMeansNothingUnreported ==
    \A t \in Tasks :
        /\ sendLast[t].ret.kind = "Err" => OkCount(sendLast[t].attempts) = 0
        /\ (pc[t] = "done" /\ ret[t].kind = "Err")
              => Len(Accepted(t)) = Reported(t)

\* C6 (as claimed): no poll_send, poll_recv, send or recv hands a would-block
\* error to its caller.
C6_WouldBlockNeverSurfaced ==
    /\ \A t \in Tasks :
          /\ sendLast[t].ret # Err("WouldBlock")
          /\ ret[t] # Err("WouldBlock")
    /\ recvLast.ret # Err("WouldBlock")

\* C7 (as claimed): at every suspension point of UdpSocket::send the number of
\* datagrams the kernel accepted for the call is the count reported to the caller.
C7_SuspendedProgressIsReported ==
    \A t \in Tasks :
        pc[t] = "suspended" => Len(Accepted(t)) = Reported(t)

\* C8: the send_to calls of one UdpSocket::send are issued in the order of the
\* slice, within one platform call and across redrives: no transmit is issued
\* after a later one, and every earlier transmit was issued before it.
C8_SubmittedInOrder ==
    \A t \in Tasks :
        LET m == Mine(t) IN
        /\ \A a, b \in 1..Len(m) : a < b => m[a].transmit <= m[b].transmit
        /\ \A b \in 1..Len(m) : \A x \in 1..(m[b].transmit - 1) :
              \E a \in 1..(b - 1) : m[a].transmit = x

\* C8 witness: a redriven send has issued all three transmits, the second one
\* twice.
C8_Witness ==
    \E t \in Tasks :
        /\ sendLast[t].from > 0
        /\ Len(Mine(t)) = 4
        /\ Mine(t)[4].transmit = 3

\* C9: a successful recv returns 1, has taken exactly one datagram off the queue
\* and has written meta slot 0 and no other; a failing one writes no meta slot.
C9_RecvPopulatesExactlySlotZero ==
    recvLast.called =>
        /\ Len(meta) = Len(recvLast.metaBefore)
        /\ \A s \in 2..Len(meta) : meta[s] = recvLast.metaBefore[s]
        /\ recvLast.ret.kind = "Ok" =>
              /\ recvLast.ret.n = 1
              /\ Len(recvLast.consumed) = 1
              /\ Len(meta) >= 1
              /\ meta[1].source = recvLast.consumed[1].source
        /\ recvLast.ret.kind # "Ok" => meta = recvLast.metaBefore

\* C9 witness: a two-byte datagram was received into two-slot slices that held
\* default entries.
C9_Witness ==
    /\ recvLast.called
    /\ recvLast.ret = Ok(1)
    /\ Len(meta) = 2
    /\ recvLast.metaBefore[1] = DefaultMeta
    /\ recvLast.consumed[1].len = 2
    /\ meta[1].len = 2
    /\ meta[2] = DefaultMeta

\* C10: after a successful recv, meta slot 0 has ecn and dst_ip absent whatever
\* it held before, the sender's address as source, and as len the number of
\* payload bytes recv_from put into buffer 0.
C10_FallbackMetaHasNoControlData ==
    (recvLast.called /\ recvLast.ret.kind = "Ok") =>
        /\ meta[1].ecn = "None"
        /\ meta[1].dst_ip = "None"
        /\ meta[1].source = recvLast.consumed[1].source
        /\ meta[1].len = buffers[1].filled
        /\ meta[1].len = Min(recvLast.consumed[1].len, buffers[1].cap)

\* C10 witness: the overwritten entry carried an ECN codepoint and a
\* destination address.
C10_Witness ==
    /\ recvLast.called
    /\ recvLast.ret.kind = "Ok"
    /\ recvLast.metaBefore[1] = StaleMeta
    /\ recvLast.consumed[1].source = "PeerA"
    /\ meta[1].ecn = "None"
\* C11 (as claimed): with max_gso_segments = 1, an accepted transmit whose
\* segment_size is Some(s) goes on the wire as datagrams of at most s bytes that
\* add up to its contents, never as one datagram of contents.len() > s bytes.
C11_SegmentedTransmitIsExpanded ==
    \A k \in 1..Len(wire) :
        LET tr == shape[wire[k].task][wire[k].transmit]
            ds == wire[k].datagrams
        IN  ( /\ MaxGsoSegments = 1
              /\ wire[k].result = "Ok"
              /\ tr.segment_size.some )
            => \A d \in 1..Len(ds) : ds[d] <= tr.segment_size.val
\* C12 (as claimed): a recv over buffers and meta slices of different lengths
\* does not abort, and takes no datagram off the receive queue that its
\* returned count does not report.
C12_LengthMismatchIsHarmless ==
    (recvLast.called /\ Len(buffers) # Len(meta)) =>
        /\ recvLast.ret.kind # "Panic"
        /\ Len(recvLast.consumed) =
              (IF recvLast.ret.kind = "Ok" THEN recvLast.ret.n ELSE 0)
\* C13: from_bits maps every 8-bit x by its low two bits only: 0b10 to ECT0,
\* 0b01 to ECT1, 0b11 to CE, 0b00 to none, and from_bits(x) is from_bits(x & 0b11).
C13_FromBitsUsesLowTwoBits ==
    ecnCall.called =>
        /\ ecnCall.x % 4 = 2 => ecnCall.result = "ECT0"
        /\ ecnCall.x % 4 = 1 => ecnCall.result = "ECT1"
        /\ ecnCall.x % 4 = 3 => ecnCall.result = "CE"
        /\ ecnCall.x % 4 = 0 => ecnCall.result = "None"
        /\ ecnCall.result = FromBits(ecnCall.x % 4)

\* C13 witness: an input with bits above the low two set was mapped to ECT0.
C13_Witness ==
    /\ ecnCall.called
    /\ ecnCall.x = 254
    /\ ecnCall.result = "ECT0"
\* C14: whenever capabilities() succeeds it reports max_gso_segments >= 1; on
\* the platform without segmentation it always succeeds and reports exactly 1,
\* whatever the socket's state and however often it is called.
C14_CapabilitiesReportOneSegment ==
    api.op = "capabilities" =>
        /\ api.ret.kind = "Ok"
        /\ api.ret.n >= 1
        /\ api.ret.n = 1

\* C14 witness: capabilities() answered after the socket's TTL was changed, a
\* datagram was sent and another received.
C14_Witness ==
    /\ api.op = "capabilities"
    /\ api.ret = Ok(1)
    /\ sock.ttl = U8Max
    /\ Len(wire) >= 1
    /\ taken >= 1

\* C15: the socket's type is the one fallback::init computed from the bound
\* address (Ipv4 for an IPv4 address, Ipv6Only otherwise) after any calls of
\* send, recv, poll_send, poll_recv, set_ttl, ttl and local_addr, and it is what
\* socket_type() returns.
C15_SocketTypeFixedAtBind ==
    LET bound == IF sock.family = "V4" THEN "Ipv4" ELSE "Ipv6Only" IN
    /\ sock.ty = bound
    /\ api.op = "socket_type" => api.val = bound

\* C15 witness: socket_type() of an IPv6 socket answered Ipv6Only after a
\* failed send, a receive and a TTL change.
C15_Witness ==
    /\ api.op = "socket_type"
    /\ api.val = "Ipv6Only"
    /\ sock.ttl = U8Max
    /\ ret[1].kind = "Err"
    /\ recvLast.ret = Ok(1)
\* C16 (as claimed): one platform send call issues at most BATCH_SIZE send_to
\* calls and so returns a count of at most BATCH_SIZE, which is 1 on this path.
C16_SendCallBoundedByBatchSize ==
    \A t \in Tasks :
        sendLast[t].called =>
            /\ Len(sendLast[t].attempts) <= BATCH_SIZE
            /\ sendLast[t].ret.kind = "Ok" => sendLast[t].ret.n <= BATCH_SIZE
\* What a poll answers when the reactor did not report the socket ready.
NotReadyAnswer(ready) == IF ready = "Pending" THEN Pending ELSE Err(ready)

\* C17: a poll_send or poll_recv whose readiness poll is pending returns
\* Pending, one whose readiness poll fails returns that error, and neither
\* issues the syscall: no send_to reaches the socket, no datagram leaves the
\* receive queue, and no meta slot or buffer is written.
C17_NoSyscallBeforeReadiness ==
    [][ /\ \A t \in Tasks :
             ( /\ sendLast'[t] # sendLast[t]
               /\ sendLast'[t].ready # "Ready" )
             => /\ sendLast'[t].ret = NotReadyAnswer(sendLast'[t].ready)
                /\ sendLast'[t].attempts = <<>>
                /\ wire' = wire
        /\ ( /\ recvLast' # recvLast \/ rpc' # rpc
             /\ recvLast'.called
             /\ recvLast'.ready # "Ready" )
           => /\ recvLast'.ret = NotReadyAnswer(recvLast'.ready)
              /\ recvLast'.consumed = <<>>
              /\ inbox' = inbox
              /\ taken' = taken
              /\ meta' = meta
              /\ buffers' = buffers
      ]_vars

\* C17 witness: with a transmit still to send and a datagram queued, the last
\* poll_send found the socket not writable and the last poll_recv found the
\* readiness poll failing.
C17_Witness ==
    /\ sendLast[1].called
    /\ sendLast[1].ready = "Pending"
    /\ sendLast[1].from = 1
    /\ sendLast[1].size = 1
    /\ recvLast.called
    /\ recvLast.ready \in PollErrors
    /\ recvLast.ret = Err("BadDescriptor")
    /\ Len(inbox) >= 1
    /\ taken >= 1
\* C18: a platform send call over n transmits returns Ok(0) exactly when n = 0
\* and otherwise Ok(k) with 1 <= k <= n or an error; so the offset i of
\* UdpSocket::send grows at every successful poll_send, stays within
\* 0..transmits.len(), and the send ends only with Ok(transmits.len()) or an
\* error, an empty send with Ok(0) and without any poll or send_to.
C18_OffsetAdvancesWithinBounds ==
    \A t \in Tasks :
        LET c == sendLast[t] IN
        /\ (c.called /\ c.ready = "Ready") =>
              /\ c.ret.kind \in {"Ok", "Err"}
              /\ (c.ret = Ok(0)) <=> (c.size = 0)
              /\ (c.ret.kind = "Ok" /\ c.size > 0) => (1 <= c.ret.n /\ c.ret.n <= c.size)
        /\ 0 <= i[t] /\ i[t] <= len[t]
        /\ (pc[t] = "running" /\ c.called) =>
              /\ i[t] = c.from + c.ret.n
              /\ i[t] > c.from
        /\ pc[t] = "done" => (ret[t] = Ok(len[t]) \/ ret[t].kind = "Err")
        /\ (pc[t] = "done" /\ len[t] = 0) =>
              /\ ret[t] = Ok(0)
              /\ ~c.called
              /\ Mine(t) = <<>>

\* C18 witness: a send of three transmits ended with Ok(3) after three
\* platform send calls that each advanced the offset by one.
C18_Witness ==
    \E t \in Tasks :
        /\ pc[t] = "done"
        /\ len[t] = 3
        /\ ret[t] = Ok(3)
        /\ sendLast[t].from = 2
        /\ Len(Mine(t)) = 5

\* C19: when two tasks run UdpSocket::send on the same socket with their steps
\* interleaved, a send that returns Ok has had each of its own transmits
\* accepted exactly once, in its own order, and reports all of them.
C19_SharedSocketSendsKeepOwnOrder ==
    \A t \in Tasks :
        (pc[t] = "done" /\ ret[t].kind = "Ok") =>
            /\ ret[t] = Ok(len[t])
            /\ Len(Accepted(t)) = len[t]
            /\ \A k \in 1..len[t] : Accepted(t)[k].transmit = k

\* C19 witness: both sends returned Ok(2) and the kernel accepted a datagram
\* of task 2 between the two datagrams of task 1.
C19_Witness ==
    /\ \A t \in Tasks : pc[t] = "done" /\ ret[t] = Ok(2)
    /\ \E a, b, c \in 1..Len(wire) :
          /\ a < b /\ b < c
          /\ wire[a].task = 1 /\ wire[a].result = "Ok"
          /\ wire[b].task = 2 /\ wire[b].result = "Ok"
          /\ wire[c].task = 1 /\ wire[c].result = "Ok"
====
